---------------------------- MODULE Spec2Model ----------------------------
(***************************************************************************)
(* Model of src/app.py: the FastAPI handler generate_ebook, its helpers    *)
(* _response_text and _extract_text_from_uploads, and the asyncio event    *)
(* loop that runs concurrent requests.                                     *)
(*                                                                         *)
(* Strings are sequences of one-character strings; " " and "NL" are the    *)
(* whitespace characters.  Template text of a prompt is abbreviated to one *)
(* bracketed token per literal run; substituted values are spliced in      *)
(* character by character, so "the prompt contains v" is substring search. *)
(* File-system paths are sequences of components; "/" as first component   *)
(* marks an absolute path, "~" the home directory shorthand.               *)
(***************************************************************************)
EXTENDS Naturals, Sequences, FiniteSets, TLC

\* Number of requests the server handles in one run of the model.
NumReqs == 2
\* Uploads of a request whose extraction is followed on its own
MaxUploads == 3
\* Candidates of a response, and parts of a candidate, when a _response_text
\* call is followed on its own
MaxCandidates == 2
MaxParts == 2
\* Largest number of uploads attached to one request.
MaxFiles == 1

Reqs == 1..NumReqs

-----------------------------------------------------------------------------
(* Strings *)

None == <<"<None>">>

WS == {" ", "NL"}

RECURSIVE LStrip(_)
LStrip(s) == IF s # <<>> /\ Head(s) \in WS THEN LStrip(Tail(s)) ELSE s

RECURSIVE RStrip(_)
RStrip(s) ==
    IF s # <<>> /\ s[Len(s)] \in WS THEN RStrip(SubSeq(s, 1, Len(s) - 1)) ELSE s

\* str.strip()
Strip(s) == RStrip(LStrip(s))

\* Python's `a or b` on strings
OrElse(a, b) == IF a = <<>> THEN b ELSE a

\* sep.join(list)
RECURSIVE Join(_, _)
Join(sep, l) ==
    IF l = <<>> THEN <<>>
    ELSE IF Len(l) = 1 THEN l[1]
    ELSE l[1] \o sep \o Join(sep, Tail(l))

\* str.lower() on the characters file names are made of
LowerChar(c) ==
    CASE c = "P" -> "p" [] c = "D" -> "d" [] c = "F" -> "f"
      [] c = "T" -> "t" [] c = "X" -> "x" [] OTHER -> c

Lower(s) == [i \in 1..Len(s) |-> LowerChar(s[i])]

\* str.endswith(suffix)
EndsWith(s, suffix) ==
    /\ Len(s) >= Len(suffix)
    /\ SubSeq(s, Len(s) - Len(suffix) + 1, Len(s)) = suffix

-----------------------------------------------------------------------------
(* Paths *)

BASE_DIR == <<"/", "srv", "app">>
HOME_DIR == <<"/", "root">>
DEFAULT_OUTPUT_PDF == BASE_DIR \o <<"ebook_gerado.pdf">>

\* The module file itself is a regular file inside BASE_DIR.
RegularFiles == {BASE_DIR \o <<"app.py">>}

IsAbsolute(p) == p # <<>> /\ p[1] = "/"

\* Path.expanduser()
ExpandUser(p) == IF p # <<>> /\ p[1] = "~" THEN HOME_DIR \o Tail(p) ELSE p

\* Path.resolve() of an absolute path on a file system without symlinks:
\* "." is dropped and ".." removes the component before it (never the root).
RECURSIVE Normalize(_, _)
Normalize(done, rest) ==
    IF rest = <<>> THEN done
    ELSE IF Head(rest) = "." THEN Normalize(done, Tail(rest))
    ELSE IF Head(rest) = ".."
         THEN Normalize(IF Len(done) > 1 THEN SubSeq(done, 1, Len(done) - 1)
                                          ELSE done, Tail(rest))
    ELSE Normalize(Append(done, Head(rest)), Tail(rest))

Resolve(p) == Normalize(<<"/">>, Tail(p))

\* Path.parent
Parent(p) == IF Len(p) > 1 THEN SubSeq(p, 1, Len(p) - 1) ELSE p

IsPrefix(a, b) == Len(a) <= Len(b) /\ SubSeq(b, 1, Len(a)) = a

\* How a relative override is anchored.
ResolveRelative(p) == Resolve(BASE_DIR \o p)

\* output_pdf as computed from the trimmed form field
ResolveOutput(output_path_raw) ==
    IF output_path_raw # <<>>
    THEN LET output_pdf == ExpandUser(output_path_raw)
         IN  IF ~IsAbsolute(output_pdf)
             THEN ResolveRelative(output_pdf)
             ELSE Resolve(output_pdf)
    ELSE DEFAULT_OUTPUT_PDF

\* Path.mkdir(parents=True, exist_ok=True) raises FileExistsError or
\* NotADirectoryError when the directory, or one of its ancestors, exists as
\* a regular file.
MkdirRaises(dir) == \E f \in RegularFiles : IsPrefix(f, dir)

-----------------------------------------------------------------------------
(* Provider responses and _response_text *)

\* A google.generativeai response as _response_text reads it: the top-level
\* text attribute (None or a string) and the candidates; a candidate has a
\* content or none, and its parts are texts (None when a part is not text).
GeminiResponse(text, candidates) == [text |-> text, candidates |-> candidates]

Candidate(has_content, parts) == [has_content |-> has_content, parts |-> parts]

RECURSIVE CollectParts(_)
CollectParts(parts) ==
    IF parts = <<>> THEN <<>>
    ELSE (IF Head(parts) # None THEN Head(parts) ELSE <<>>)
         \o CollectParts(Tail(parts))

\* Mutant of CollectCandidates: only the first candidate is read.
CollectCandidates_FirstOnly(candidates) ==
    IF candidates = <<>> THEN <<>>
    ELSE IF Head(candidates).has_content /\ Head(candidates).parts # <<>>
    THEN CollectParts(Head(candidates).parts) ELSE <<>>

RECURSIVE CollectCandidates(_)
CollectCandidates(candidates) ==
    IF candidates = <<>> THEN <<>>
    ELSE LET candidate == Head(candidates)
         IN  (IF candidate.has_content /\ candidate.parts # <<>>
              THEN CollectParts(candidate.parts) ELSE <<>>)
             \o CollectCandidates(Tail(candidates))

_response_text(response) ==
    IF response.text # None /\ Strip(response.text) # <<>>
    THEN response.text
    ELSE IF response.candidates = <<>> THEN <<>>
    ELSE CollectCandidates(response.candidates)

\* What a generate_content call may do: raise, or return one of these.
GeminiResponses ==
    { GeminiResponse(<<"m", " ">>, <<>>),
      GeminiResponse(<<" ">>, <<>>),
      GeminiResponse(None, << Candidate(FALSE, <<>>),
                              Candidate(TRUE, << <<"m">>, None, <<" ">> >>) >>) }

\* What chat.completions.create may return in choices[0].message.content;
\* None makes .strip() raise AttributeError inside the try block.
OpenAIContents == { None, <<>>, <<" ">>, <<"m", " ">> }

-----------------------------------------------------------------------------
(* Prompts *)

analysis_prompt(text_content, reference_text) ==
    Strip(<<"NL", "[analise: conteudo principal]">> \o text_content
          \o <<"[referencias adicionais]">> \o reference_text \o <<"NL">>)

\* Mutant of content_prompt: the template lacks the {analysis_summary} field.
content_prompt_NoSummary(personality, analysis_summary, text_content, references) ==
    <<"[rascunho: personalidade]">> \o personality
    \o <<"[resumo pre-analisado]">>
    \o <<"[conteudo principal]">> \o text_content
    \o <<"[referencias adicionais]">> \o references

content_prompt(personality, analysis_summary, text_content, references) ==
    <<"[rascunho: personalidade]">> \o personality
    \o <<"[resumo pre-analisado]">> \o analysis_summary
    \o <<"[conteudo principal]">> \o text_content
    \o <<"[referencias adicionais]">> \o references

edit_prompt(raw_markdown) ==
    <<"[edicao: rascunho recebido]">> \o raw_markdown \o <<"[diretrizes de edicao]">>

\* analysis_summary on the OpenAI path
OpenAISummary == <<"[Sintese direta realizada pelo modelo OpenAI.]">>

DefaultPersonality == <<"n", "e", "u", "t", "r", "a">>

-----------------------------------------------------------------------------
(* Responses of the handler *)

NoResponse == [kind |-> "pending", status_code |-> 0, error |-> "", filename |-> ""]

_json_error(message, status_code) ==
    [kind |-> "json_error", status_code |-> status_code, error |-> message,
     filename |-> ""]

\* An exception that leaves the handler; the framework answers for it.
Unhandled(what) ==
    [kind |-> "exception", status_code |-> 0, error |-> what, filename |-> ""]

PdfResponse(output_pdf) ==
    [kind |-> "pdf", status_code |-> 200, error |-> "",
     filename |-> output_pdf[Len(output_pdf)]]

ErrTextRequired == _json_error("Conteudo de texto e obrigatorio.", 400)
ErrKeyRequired == _json_error("Pelo menos uma chave de API e obrigatoria.", 400)
\* Mutant of ErrGeminiInit: the initialization failure is reported as 500.
ErrGeminiInit_500 == _json_error("Falha ao inicializar os modelos Gemini", 500)
ErrGeminiInit == _json_error("Falha ao inicializar os modelos Gemini", 400)
ErrOpenAIInit == _json_error("Falha ao inicializar o cliente OpenAI", 400)
ErrNoModel == _json_error("Erro interno: Nenhuma chave de API valida", 500)
ErrGeminiAnalysis == _json_error("Falha ao analisar o conteudo (Gemini)", 500)
ErrGeminiNoSummary == _json_error("O modelo Gemini nao retornou um resumo", 500)
ErrGeminiDraft == _json_error("Falha ao gerar o rascunho (Gemini)", 500)
ErrGeminiNoDraft == _json_error("O modelo Gemini nao retornou rascunho", 500)
ErrGeminiEdit == _json_error("Falha ao editar o rascunho (Gemini)", 500)
ErrGeminiNoFinal == _json_error("O modelo Gemini nao retornou texto final", 500)
ErrOpenAIDraft == _json_error("Falha ao gerar o rascunho (OpenAI)", 500)
ErrOpenAINoDraft == _json_error("O modelo OpenAI nao retornou rascunho", 500)
ErrOpenAIEdit == _json_error("Falha ao editar o rascunho (OpenAI)", 500)
ErrOpenAINoFinal == _json_error("O modelo OpenAI nao retornou texto final", 500)
ErrPdf == _json_error("Falha ao gerar o PDF com WeasyPrint", 500)

-----------------------------------------------------------------------------
(* Uploads and request inputs *)

\* An upload: its file name and what its bytes are to each reader: empty or
\* not, parseable by PdfReader or not, the extract_text() result of each
\* page (<<>> for a page without text), and the utf-8 decoding.
Upload(filename, empty, pdf_ok, pages, text) ==
    [filename |-> filename, empty |-> empty, pdf_ok |-> pdf_ok,
     pages |-> pages, text |-> text]

TxtUpload == Upload(<<"n", ".", "t", "x", "t">>, FALSE, FALSE, <<>>, <<"r">>)
EmptyUpload == Upload(<<"e", ".", "t", "x", "t">>, TRUE, FALSE, <<>>, <<>>)
PdfUpload == Upload(<<"A", ".", "P", "D", "F">>, FALSE, TRUE, << <<>>, <<"p">> >>, <<>>)
CorruptPdfUpload == Upload(<<"c", ".", "p", "d", "f">>, FALSE, FALSE, <<>>, <<"x">>)
DocxUpload == Upload(<<"d", ".", "d", "o", "c", "x">>, FALSE, FALSE, <<>>, <<"w">>)

Uploads == {TxtUpload, EmptyUpload, PdfUpload, CorruptPdfUpload, DocxUpload}

\* A five-page PDF whose only pages with text are 2 and 5.
ReportPdfUpload ==
    Upload(<<"r", ".", "p", "d", "f">>, FALSE, TRUE,
           << <<>>, <<"b">>, <<>>, <<>>, <<"e">> >>, <<>>)
\* A .pdf upload without bytes, a .txt upload none of whose bytes is valid
\* utf-8 (errors="ignore" decodes it to ""), and an upload without file name.
EmptyPdfUpload == Upload(<<"z", ".", "p", "d", "f">>, TRUE, FALSE, <<>>, <<>>)
UndecodableTxtUpload == Upload(<<"u", ".", "t", "x", "t">>, FALSE, FALSE, <<>>, <<>>)
NamelessUpload == Upload(None, FALSE, FALSE, <<>>, <<"k">>)

ExtractUploads ==
    Uploads \cup {ReportPdfUpload, EmptyPdfUpload, UndecodableTxtUpload, NamelessUpload}

SeqsUpTo(S, n) == UNION {[1..k -> S] : k \in 0..n}

TextInputs == { <<>>, <<" ">>, <<" ", "t", " ">> }
PersonalityInputs == { <<>>, <<" ">>, <<"f", " ">> }
GoogleKeyInputs == { <<>>, <<" ">>, <<" ", "g">> }
OpenAIKeyInputs == { <<>>, <<" ">>, <<"o">> }
OutputPathInputs ==
    { <<>>, <<"out.pdf">>, <<"sub", "out.pdf">>, <<"..", "out.pdf">>,
      <<"sub", "..", "..", "..", "etc", "out.pdf">>, <<"app.py", "out.pdf">>,
      <<"/", "tmp", "out.pdf">>, <<"~", "out.pdf">> }

\* The form fields of a request
Inputs ==
    [text_content : TextInputs, personality : PersonalityInputs,
     google_api_key : GoogleKeyInputs, openai_api_key : OpenAIKeyInputs,
     output_path : OutputPathInputs, files : SeqsUpTo(Uploads, MaxFiles)]

KeyChar(r) == CASE r = 1 -> "1" [] r = 2 -> "2" [] r = 3 -> "3" [] OTHER -> "9"

\* Requests that differ in the provider they ask for and in whether they
\* carry an upload; each Google credential is its request's own.
ConcurrentInputs(r) ==
    [text_content : {<<"t">>}, personality : {<<"f">>},
     google_api_key : {<<>>, <<"g", KeyChar(r)>>}, openai_api_key : {<<"o", KeyChar(r)>>},
     output_path : {<<>>}, files : {<<>>, <<TxtUpload>>}]

NoInput ==
    [text_content |-> <<>>, personality |-> <<>>, google_api_key |-> <<>>,
     openai_api_key |-> <<>>, output_path |-> <<>>, files |-> <<>>]

-----------------------------------------------------------------------------
(* State *)

VARIABLES
    req,            \* req[r]: the form fields request r was sent with
    h,              \* h[r]: the locals of the generate_ebook coroutine of r
    calls,          \* calls[r]: the external calls r has made, in order, each
                    \* with how it ended: "ok", "raised", or for a generation
                    \* call "text" / "blank" (nothing left after trimming),
                    \* "timed_out" (the timeout it was given expired) or
                    \* "no_answer" (issued without a timeout, never answered)
    resp,           \* resp[r]: what the handler of r returned (or raised)
    genai_api_key,  \* the credential genai.configure stored process-wide
    running,        \* the coroutine the event loop is running, 0 when idle
    text_call       \* a _response_text call followed on its own: the
                    \* response it was given, what it returned, and what the
                    \* stage that called it made of that

vars == <<req, h, calls, resp, genai_api_key, running, text_call>>

\* No _response_text call is followed.
NoTextCall ==
    [pc |-> "none", response |-> None, returned |-> None, stripped |-> None,
     failed |-> FALSE]

Call(api, stage, key, arg, result) ==
    [api |-> api, stage |-> stage, key |-> key, arg |-> arg, result |-> result,
     timeout |-> 0]

\* GEMINI_TIMEOUT = 5 * 60, in seconds
GEMINI_TIMEOUT == 300

\* Mutant of CallTimeout: the calls are issued without a timeout.
CallTimeout_Unset(stage_pc) == 0

\* The timeout each generation call is given: request_options on the Gemini
\* path, the timeout argument on the OpenAI path.
CallTimeout(stage_pc) == GEMINI_TIMEOUT

\* A generation call, issued with the timeout of its call site.
TimedCall(api, stage, stage_pc, key, arg, result) ==
    [Call(api, stage, key, arg, result) EXCEPT !.timeout = CallTimeout(stage_pc)]

TextResult(text) == IF Strip(text) = <<>> THEN "blank" ELSE "text"

\* The locals before the first statement of the handler has run.
FreshLocals(pc) ==
    [pc |-> pc, text_content |-> <<>>, personality |-> <<>>,
     google_api_key |-> <<>>, openai_api_key |-> <<>>, output_pdf |-> <<>>,
     idx |-> 0, uploaded_text |-> <<>>, reference_text |-> <<>>,
     model_type |-> "none", content_client |-> None, edit_client |-> None,
     analysis_summary |-> <<>>, raw_markdown |-> <<>>, final_markdown |-> <<>>,
     steps |-> <<>>, failed_at |-> "none"]

\* One request arrives, with any form fields.
Init ==
    /\ \E input \in Inputs : req = [r \in Reqs |-> IF r = 1 THEN input ELSE NoInput]
    /\ h = [r \in Reqs |-> FreshLocals(IF r = 1 THEN "start" ELSE "absent")]
    /\ calls = [r \in Reqs |-> <<>>]
    /\ resp = [r \in Reqs |-> NoResponse]
    /\ genai_api_key = None
    /\ running = 0
    /\ text_call = NoTextCall

\* NumReqs requests arrive together.
InitConcurrent ==
    /\ req \in {f \in [Reqs -> UNION {ConcurrentInputs(r) : r \in Reqs}] :
                    \A r \in Reqs : f[r] \in ConcurrentInputs(r)}
    /\ h = [r \in Reqs |-> FreshLocals("start")]
    /\ calls = [r \in Reqs |-> <<>>]
    /\ resp = [r \in Reqs |-> NoResponse]
    /\ genai_api_key = None
    /\ running = 0
    /\ text_call = NoTextCall

-----------------------------------------------------------------------------
(* Control flow shared by the steps *)

\* Mutant of LoopOwner: the provider calls are awaited, so the coroutine
\* yields the loop around each of them.
LoopOwner_Yields(r) == 0

\* The handler never awaits between its last upload read and its return
\* statement: every provider and renderer call is a blocking call made on
\* the event loop's thread, so the loop stays with coroutine r throughout.
LoopOwner(r) == r

\* Mutant of IsBlankResult: the empty-result checks are missing.
IsBlankResult_Never(text) == FALSE

\* `if not <stage result>:` - the stage produced no text
IsBlankResult(text) == text = <<>>

\* Mutant of AfterFailure: a failed stage is attempted again.
AfterFailure_Retry(stage_pc) == stage_pc

\* Every except block and every empty-result check returns: the handler is
\* over, nothing loops back to the stage.
AfterFailure(stage_pc) == "done"

\* Mutant of SelectedProvider: the OpenAI credential is looked at first.
SelectedProvider_OpenAIFirst(google_api_key, openai_api_key) ==
    IF openai_api_key # <<>> THEN "openai"
    ELSE IF google_api_key # <<>> THEN "gemini"
    ELSE "none"

\* Which client the if/elif chain constructs.
SelectedProvider(google_api_key, openai_api_key) ==
    IF google_api_key # <<>> THEN "gemini"
    ELSE IF openai_api_key # <<>> THEN "openai"
    ELSE "none"

\* The handler returns `response` (or lets an exception out): the coroutine
\* ends and the event loop is free.
Return(r, response, stage, new_calls, locals) ==
    /\ resp' = [resp EXCEPT ![r] = response]
    /\ h' = [h EXCEPT ![r] = [locals EXCEPT !.pc = "done", !.failed_at = stage]]
    /\ calls' = [calls EXCEPT ![r] = @ \o new_calls]
    /\ running' = 0
    /\ UNCHANGED text_call

\* A stage failed: its error is returned.
Fail(r, response, stage, stage_pc, new_calls, locals) ==
    /\ resp' = [resp EXCEPT ![r] = response]
    /\ h' = [h EXCEPT ![r] = [locals EXCEPT !.pc = AfterFailure(stage_pc),
                                             !.failed_at = stage]]
    /\ calls' = [calls EXCEPT ![r] = @ \o new_calls]
    /\ running' = IF AfterFailure(stage_pc) = "done" THEN 0 ELSE LoopOwner(r)
    /\ UNCHANGED text_call

\* The handler goes on to its next statement, keeping or yielding the loop.
Goto(r, new_calls, locals, owner) ==
    /\ h' = [h EXCEPT ![r] = locals]
    /\ calls' = [calls EXCEPT ![r] = @ \o new_calls]
    /\ running' = owner
    /\ UNCHANGED <<resp, text_call>>

-----------------------------------------------------------------------------
\* A provider that does not answer: the client raises once the call's
\* timeout has expired, which the stage's except block turns into the stage's
\* error; a call without a timeout keeps the handler waiting.
NoAnswer(r, response, stage, stage_pc, timed_out, no_answer, locals) ==
    IF CallTimeout(stage_pc) > 0
    THEN Fail(r, response, stage, stage_pc, timed_out, locals)
    ELSE Goto(r, no_answer, [locals EXCEPT !.pc = "waiting"], LoopOwner(r))

-----------------------------------------------------------------------------
(* generate_ebook, lines 150-189 *)

\* Trimming of the form fields, resolution of the output path and creation
\* of its parent directory.
Prepare(r) ==
    /\ h[r].pc = "start"
    /\ running = 0
    /\ UNCHANGED <<req, genai_api_key>>
    /\ LET output_pdf == ResolveOutput(req[r].output_path)
           locals == [h[r] EXCEPT
               !.pc = "validate",
               !.text_content = Strip(req[r].text_content),
               !.personality =
                   OrElse(Strip(OrElse(req[r].personality, DefaultPersonality)),
                          DefaultPersonality),
               !.google_api_key = Strip(req[r].google_api_key),
               !.openai_api_key = Strip(req[r].openai_api_key),
               !.output_pdf = output_pdf]
           mkdir(result) == <<Call("mkdir", "prepare", <<>>, Parent(output_pdf), result)>>
       IN  IF MkdirRaises(Parent(output_pdf))
           THEN Return(r, Unhandled("mkdir"), "prepare", mkdir("raised"), locals)
           ELSE Goto(r, mkdir("ok"), locals, r)

\* The two input checks, then the first `await storage.read()` if there
\* are uploads.
Validate(r) ==
    /\ h[r].pc = "validate"
    /\ running = r
    /\ UNCHANGED <<req, genai_api_key>>
    /\ IF h[r].text_content = <<>>
       THEN Return(r, ErrTextRequired, "validation", <<>>, h[r])
       ELSE IF h[r].google_api_key = <<>> /\ h[r].openai_api_key = <<>>
       THEN Return(r, ErrKeyRequired, "validation", <<>>, h[r])
       ELSE IF req[r].files # <<>>
       THEN Goto(r, <<>>, [h[r] EXCEPT !.pc = "await_read", !.idx = 1], 0)
       ELSE Goto(r, <<>>, [h[r] EXCEPT !.pc = "select"], r)

\* The fragments one upload contributes, when reading it does not raise.
UploadFragments(storage) ==
    LET filename == Lower(IF storage.filename = None THEN <<>> ELSE storage.filename)
    IN  IF storage.empty THEN <<>>
        ELSE IF EndsWith(filename, <<".", "p", "d", "f">>)
        THEN SelectSeq(storage.pages, LAMBDA page_text : page_text # <<>>)
        ELSE IF EndsWith(filename, <<".", "t", "x", "t">>)
        THEN <<storage.text>>
        ELSE <<>>

\* PdfReader(...) raises on bytes that are not a PDF document.
UploadRaises(storage) ==
    /\ ~storage.empty
    /\ EndsWith(Lower(IF storage.filename = None THEN <<>> ELSE storage.filename),
                <<".", "p", "d", "f">>)
    /\ ~storage.pdf_ok

\* `await storage.read()` completes; the coroutine goes on to
\* `await storage.close()` and is suspended again.
ResumeRead(r) ==
    /\ h[r].pc = "await_read"
    /\ running = 0
    /\ UNCHANGED <<req, genai_api_key>>
    /\ Goto(r, <<>>, [h[r] EXCEPT !.pc = "await_close"], 0)

\* `await storage.close()` completes; the upload's bytes are turned into
\* fragments and the loop goes to the next upload, or the extractor returns.
ResumeClose(r) ==
    /\ h[r].pc = "await_close"
    /\ running = 0
    /\ UNCHANGED <<req, genai_api_key>>
    /\ LET storage == req[r].files[h[r].idx]
           texts == h[r].uploaded_text \o UploadFragments(storage)
       IN  IF UploadRaises(storage)
           THEN Return(r, Unhandled("PdfReader"), "extract",
                       <<Call("PdfReader", "extract", <<>>, <<>>, "raised")>>, h[r])
           ELSE IF h[r].idx < Len(req[r].files)
           THEN Goto(r, <<>>, [h[r] EXCEPT !.pc = "await_read", !.idx = @ + 1,
                                           !.uploaded_text = texts], 0)
           ELSE Goto(r, <<>>, [h[r] EXCEPT !.pc = "select",
                                           !.uploaded_text = texts], r)

-----------------------------------------------------------------------------
(* generate_ebook, lines 191-235: references and provider initialization *)

\* genai.configure stores the credential in the library's process-wide
\* client manager and GenerativeModel builds its client from that store at
\* its first generate_content call; OpenAI(api_key=...) keeps the credential
\* in the client object it returns.
SelectProvider(r) ==
    /\ h[r].pc = "select"
    /\ running = r
    /\ UNCHANGED req
    /\ LET references == Strip(Join(<<"NL">>, h[r].uploaded_text))
           locals == [h[r] EXCEPT !.reference_text = OrElse(references, <<"[Nenhuma]">>)]
           provider == SelectedProvider(h[r].google_api_key, h[r].openai_api_key)
           configure(result) ==
               Call("genai.configure", "init", h[r].google_api_key, <<>>, result)
           models(result) == Call("genai.GenerativeModel", "init", <<>>, <<>>, result)
           client(result) == Call("OpenAI", "init", h[r].openai_api_key, <<>>, result)
       IN  CASE provider = "gemini" ->
                  \/ /\ genai_api_key' = h[r].google_api_key
                     /\ Goto(r, <<configure("ok"), models("ok")>>,
                             [locals EXCEPT !.pc = "gemini_analysis",
                                            !.model_type = "gemini"], LoopOwner(r))
                  \/ /\ genai_api_key' = h[r].google_api_key
                     /\ Return(r, ErrGeminiInit, "init",
                               <<configure("ok"), models("raised")>>, locals)
                  \/ /\ UNCHANGED genai_api_key
                     /\ Return(r, ErrGeminiInit, "init", <<configure("raised")>>, locals)
            [] provider = "openai" ->
                  /\ UNCHANGED genai_api_key
                  /\ \/ Goto(r, <<client("ok")>>,
                             [locals EXCEPT !.pc = "openai_draft",
                                            !.model_type = "openai"], LoopOwner(r))
                     \/ Return(r, ErrOpenAIInit, "init", <<client("raised")>>, locals)
            [] OTHER ->
                  /\ UNCHANGED genai_api_key
                  /\ Return(r, ErrNoModel, "init", <<>>, locals)

-----------------------------------------------------------------------------
(* generate_ebook, lines 304-356: the Gemini path *)

\* The credential a GenerativeModel object calls with: that of the client
\* it already holds, else the one the process-wide store holds now.
ClientKey(held) == IF held # None THEN held ELSE genai_api_key

GeminiAnalysis(r) ==
    /\ h[r].pc = "gemini_analysis"
    /\ running = LoopOwner(r)
    /\ UNCHANGED <<req, genai_api_key>>
    /\ LET prompt == analysis_prompt(h[r].text_content, h[r].reference_text)
           key == ClientKey(h[r].content_client)
           call(result) == <<TimedCall("generate_content", "analysis", "gemini_analysis", key,
                                       prompt, result)>>
           locals == [h[r] EXCEPT !.content_client = key,
                                  !.steps = Append(@, "analysis")]
       IN  \/ Fail(r, ErrGeminiAnalysis, "analysis", "gemini_analysis", call("raised"),
                   locals)
           \/ NoAnswer(r, ErrGeminiAnalysis, "analysis", "gemini_analysis",
                       call("timed_out"), call("no_answer"), locals)
           \/ \E response \in GeminiResponses :
                LET analysis_summary == Strip(_response_text(response))
                IN  IF IsBlankResult(analysis_summary)
                    THEN Fail(r, ErrGeminiNoSummary, "analysis", "gemini_analysis",
                              call(TextResult(_response_text(response))), locals)
                    ELSE Goto(r, call(TextResult(_response_text(response))),
                              [locals EXCEPT !.pc = "gemini_draft",
                                             !.analysis_summary = analysis_summary],
                              LoopOwner(r))

GeminiDraft(r) ==
    /\ h[r].pc = "gemini_draft"
    /\ running = LoopOwner(r)
    /\ UNCHANGED <<req, genai_api_key>>
    /\ LET prompt == content_prompt(h[r].personality, h[r].analysis_summary,
                                    h[r].text_content, h[r].reference_text)
           key == ClientKey(h[r].content_client)
           call(result) == <<TimedCall("generate_content", "draft", "gemini_draft", key,
                                       prompt, result)>>
           locals == [h[r] EXCEPT !.content_client = key,
                                  !.steps = Append(@, "draft")]
       IN  \/ Fail(r, ErrGeminiDraft, "draft", "gemini_draft", call("raised"),
                   locals)
           \/ NoAnswer(r, ErrGeminiDraft, "draft", "gemini_draft",
                       call("timed_out"), call("no_answer"), locals)
           \/ \E response \in GeminiResponses :
                LET raw_markdown == Strip(_response_text(response))
                IN  IF IsBlankResult(raw_markdown)
                    THEN Fail(r, ErrGeminiNoDraft, "draft", "gemini_draft",
                              call(TextResult(_response_text(response))), locals)
                    ELSE Goto(r, call(TextResult(_response_text(response))),
                              [locals EXCEPT !.pc = "gemini_edit",
                                             !.raw_markdown = raw_markdown],
                              LoopOwner(r))

GeminiEdit(r) ==
    /\ h[r].pc = "gemini_edit"
    /\ running = LoopOwner(r)
    /\ UNCHANGED <<req, genai_api_key>>
    /\ LET prompt == edit_prompt(h[r].raw_markdown)
           key == ClientKey(h[r].edit_client)
           call(result) == <<TimedCall("generate_content", "edit", "gemini_edit", key,
                                       prompt, result)>>
           locals == [h[r] EXCEPT !.edit_client = key,
                                  !.steps = Append(@, "edit")]
       IN  \/ Fail(r, ErrGeminiEdit, "edit", "gemini_edit", call("raised"),
                   locals)
           \/ NoAnswer(r, ErrGeminiEdit, "edit", "gemini_edit",
                       call("timed_out"), call("no_answer"), locals)
           \/ \E response \in GeminiResponses :
                LET final_markdown == Strip(_response_text(response))
                IN  IF IsBlankResult(final_markdown)
                    THEN Fail(r, ErrGeminiNoFinal, "edit", "gemini_edit",
                              call(TextResult(_response_text(response))), locals)
                    ELSE Goto(r, call(TextResult(_response_text(response))),
                              [locals EXCEPT !.pc = "render",
                                             !.final_markdown = final_markdown],
                              LoopOwner(r))

-----------------------------------------------------------------------------
(* generate_ebook, lines 358-407: the OpenAI path *)

OpenAIDraft(r) ==
    /\ h[r].pc = "openai_draft"
    /\ running = LoopOwner(r)
    /\ UNCHANGED <<req, genai_api_key>>
    /\ LET prompt == content_prompt(h[r].personality, OpenAISummary,
                                    h[r].text_content, h[r].reference_text)
           call(result) == <<TimedCall("chat.completions.create", "draft", "openai_draft",
                                       h[r].openai_api_key, prompt, result)>>
           locals == [h[r] EXCEPT !.steps = Append(@, "draft")]
       IN  \/ Fail(r, ErrOpenAIDraft, "draft", "openai_draft", call("raised"),
                   locals)
           \/ NoAnswer(r, ErrOpenAIDraft, "draft", "openai_draft",
                       call("timed_out"), call("no_answer"), locals)
           \/ \E content \in OpenAIContents :
                IF content = None
                THEN Fail(r, ErrOpenAIDraft, "draft", "openai_draft",
                          call("raised"), locals)
                ELSE IF IsBlankResult(Strip(content))
                THEN Fail(r, ErrOpenAINoDraft, "draft", "openai_draft",
                              call(TextResult(content)), locals)
                ELSE Goto(r, call(TextResult(content)),
                          [locals EXCEPT !.pc = "openai_edit",
                                         !.raw_markdown = Strip(content)],
                          LoopOwner(r))

OpenAIEdit(r) ==
    /\ h[r].pc = "openai_edit"
    /\ running = LoopOwner(r)
    /\ UNCHANGED <<req, genai_api_key>>
    /\ LET prompt == edit_prompt(h[r].raw_markdown)
           call(result) == <<TimedCall("chat.completions.create", "edit", "openai_edit",
                                       h[r].openai_api_key, prompt, result)>>
           locals == [h[r] EXCEPT !.steps = Append(@, "edit")]
       IN  \/ Fail(r, ErrOpenAIEdit, "edit", "openai_edit", call("raised"),
                   locals)
           \/ NoAnswer(r, ErrOpenAIEdit, "edit", "openai_edit",
                       call("timed_out"), call("no_answer"), locals)
           \/ \E content \in OpenAIContents :
                IF content = None
                THEN Fail(r, ErrOpenAIEdit, "edit", "openai_edit",
                          call("raised"), locals)
                ELSE IF IsBlankResult(Strip(content))
                THEN Fail(r, ErrOpenAINoFinal, "edit", "openai_edit",
                              call(TextResult(content)), locals)
                ELSE Goto(r, call(TextResult(content)),
                          [locals EXCEPT !.pc = "render",
                                         !.final_markdown = Strip(content)],
                          LoopOwner(r))

-----------------------------------------------------------------------------
(* generate_ebook, lines 583-610: rendering and the response *)

\* markdown.markdown is called outside the try block; HTML(...).write_pdf
\* inside it.
Render(r) ==
    /\ h[r].pc = "render"
    /\ running = LoopOwner(r)
    /\ UNCHANGED <<req, genai_api_key>>
    /\ LET md(result) ==
               Call("markdown.markdown", "render", <<>>, h[r].final_markdown, result)
           pdf(result) == Call("write_pdf", "render", <<>>, h[r].final_markdown, result)
       IN  \/ Return(r, Unhandled("markdown"), "render", <<md("raised")>>, h[r])
           \/ Return(r, ErrPdf, "render", <<md("ok"), pdf("raised")>>, h[r])
           \/ Return(r, PdfResponse(h[r].output_pdf), "none",
                     <<md("ok"), pdf("ok")>>, h[r])

-----------------------------------------------------------------------------

Next ==
    \E r \in Reqs :
        \/ Prepare(r)
        \/ Validate(r)
        \/ ResumeRead(r)
        \/ ResumeClose(r)
        \/ SelectProvider(r)
        \/ GeminiAnalysis(r)
        \/ GeminiDraft(r)
        \/ GeminiEdit(r)
        \/ OpenAIDraft(r)
        \/ OpenAIEdit(r)
        \/ Render(r)

\* One request at a time, any form fields.
Spec == Init /\ [][Next]_vars

\* NumReqs concurrent requests.
SpecConcurrent == InitConcurrent /\ [][Next]_vars

\* A valid request with up to MaxUploads uploads of any kind.
ExtractInputs ==
    [text_content : {<<"t">>}, personality : {<<>>}, google_api_key : {<<>>},
     openai_api_key : {<<"o">>}, output_path : {<<>>},
     files : SeqsUpTo(ExtractUploads, MaxUploads)]

InitExtract ==
    /\ \E input \in ExtractInputs :
           req = [r \in Reqs |-> IF r = 1 THEN input ELSE NoInput]
    /\ h = [r \in Reqs |-> FreshLocals(IF r = 1 THEN "start" ELSE "absent")]
    /\ calls = [r \in Reqs |-> <<>>]
    /\ resp = [r \in Reqs |-> NoResponse]
    /\ genai_api_key = None
    /\ running = 0
    /\ text_call = NoTextCall

\* The handler up to the return of _extract_text_from_uploads.
NextExtract ==
    \E r \in Reqs :
        \/ Prepare(r)
        \/ Validate(r)
        \/ ResumeRead(r)
        \/ ResumeClose(r)

SpecExtract == InitExtract /\ [][NextExtract]_vars

\* Responses of any shape: the top-level text absent, empty, blank or a text
\* with blanks around it; candidates without content, with a content
\* without parts, or with parts that are texts or not (None).
TopTexts == { None, <<>>, <<" ">>, <<" ", "m">> }
PartTexts == { None, <<"a">>, <<" ">> }
Candidates ==
    {Candidate(FALSE, <<>>)}
        \cup {Candidate(TRUE, parts) : parts \in SeqsUpTo(PartTexts, MaxParts)}
AnyResponses ==
    {GeminiResponse(text, candidates) :
        text \in TopTexts, candidates \in SeqsUpTo(Candidates, MaxCandidates)}

\* generate_content has returned some response and the stage is about to
\* pass it to _response_text; no request is followed.
InitResponse ==
    /\ req = [r \in Reqs |-> NoInput]
    /\ h = [r \in Reqs |-> FreshLocals("absent")]
    /\ calls = [r \in Reqs |-> <<>>]
    /\ resp = [r \in Reqs |-> NoResponse]
    /\ genai_api_key = None
    /\ running = 0
    /\ \E response \in AnyResponses :
           text_call = [NoTextCall EXCEPT !.pc = "called", !.response = response]

\* _response_text(response) returns.
ResponseText ==
    /\ text_call.pc = "called"
    /\ text_call' = [text_call EXCEPT !.pc = "returned",
                                      !.returned = _response_text(text_call.response)]
    /\ UNCHANGED <<req, h, calls, resp, genai_api_key, running>>

\* The stage trims what was returned and fails when nothing is left
\* (`x = _response_text(...).strip()`, then `if not x: return _json_error`).
StageCheck ==
    /\ text_call.pc = "returned"
    /\ text_call' = [text_call EXCEPT !.pc = "checked",
                                      !.stripped = Strip(text_call.returned),
                                      !.failed = IsBlankResult(Strip(text_call.returned))]
    /\ UNCHANGED <<req, h, calls, resp, genai_api_key, running>>

NextResponse == ResponseText \/ StageCheck

SpecResponse == InitResponse /\ [][NextResponse]_vars

\* The event loop runs a coroutine whenever one can run, and a provider call
\* that was issued ends: it returns, raises, or goes unanswered until its
\* timeout expires.
SpecLive == Init /\ [][Next]_vars /\ WF_vars(Next)

-----------------------------------------------------------------------------
(* Vocabulary of the properties *)

InitAPIs == {"genai.configure", "genai.GenerativeModel", "OpenAI"}
GenerationAPIs == {"generate_content", "chat.completions.create"}
GeminiAPIs == {"genai.configure", "genai.GenerativeModel", "generate_content"}
OpenAIAPIs == {"OpenAI", "chat.completions.create"}
RendererAPIs == {"markdown.markdown", "write_pdf"}
Stages == {"analysis", "draft", "edit"}

CallsTo(r, apis) == {i \in 1..Len(calls[r]) : calls[r][i].api \in apis}

Touched(r, apis) == CallsTo(r, apis) # {}

Range(seq) == {seq[i] : i \in 1..Len(seq)}

\* `needle` occurs in the string `hay`
Contains(hay, needle) ==
    \E i \in 1..(Len(hay) + 1) :
        /\ i + Len(needle) - 1 <= Len(hay)
        /\ SubSeq(hay, i, i + Len(needle) - 1) = needle

\* Path p is base or lies below it
IsInside(p, base) == IsPrefix(base, p)

\* The credentials of a request as sent, trimmed
GoogleKey(r) == Strip(req[r].google_api_key)
OpenAIKey(r) == Strip(req[r].openai_api_key)

FailsValidation(r) ==
    \/ Strip(req[r].text_content) = <<>>
    \/ GoogleKey(r) = <<>> /\ OpenAIKey(r) = <<>>

Arrived(r) == h[r].pc # "absent"
Finished(r) == h[r].pc = "done"

-----------------------------------------------------------------------------
(* C1 *)

\* C1: every request that fails input validation (text empty after trimming,
\* or both credentials empty after trimming) is answered with a 400 JSON
\* error, and no provider is initialized or called for it.
C1_ValidationFailureIs400 ==
    \A r \in Reqs :
        (Arrived(r) /\ Finished(r) /\ FailsValidation(r)) =>
            /\ resp[r].kind = "json_error"
            /\ resp[r].status_code = 400
            /\ ~Touched(r, InitAPIs \cup GenerationAPIs)

-----------------------------------------------------------------------------
(* C2 *)

\* The error each failing generation call is answered with.
StageError(api, stage, result) ==
    IF api = "generate_content"
    THEN CASE stage = "analysis" ->
                (IF result \in {"raised", "timed_out"} THEN ErrGeminiAnalysis ELSE ErrGeminiNoSummary)
           [] stage = "draft" ->
                (IF result \in {"raised", "timed_out"} THEN ErrGeminiDraft ELSE ErrGeminiNoDraft)
           [] OTHER ->
                (IF result \in {"raised", "timed_out"} THEN ErrGeminiEdit ELSE ErrGeminiNoFinal)
    ELSE CASE stage = "draft" ->
                (IF result \in {"raised", "timed_out"} THEN ErrOpenAIDraft ELSE ErrOpenAINoDraft)
           [] OTHER ->
                (IF result \in {"raised", "timed_out"} THEN ErrOpenAIEdit ELSE ErrOpenAINoFinal)

\* C2: a generation call that raises, or whose text is empty after trimming,
\* is the last external call of its request: no later stage is called, the
\* renderer is not called, and the request has ended with the error of that
\* stage.
C2_StageFailureHalts ==
    \A r \in Reqs : \A i \in CallsTo(r, GenerationAPIs) :
        calls[r][i].result \in {"raised", "timed_out", "blank"} =>
            /\ i = Len(calls[r])
            /\ Finished(r)
            /\ resp[r] = StageError(calls[r][i].api, calls[r][i].stage,
                                    calls[r][i].result)
            /\ resp[r].status_code = 500

\* The Gemini draft call returned blank text and the request ended there.
C2_Witness ==
    \E r \in Reqs : \E i \in CallsTo(r, {"generate_content"}) :
        /\ calls[r][i].stage = "draft"
        /\ calls[r][i].result = "blank"
        /\ resp[r] = ErrGeminiNoDraft
        /\ ~Touched(r, RendererAPIs)

-----------------------------------------------------------------------------
(* C3 *)

\* C3: every request ends with the PDF response or with a JSON error; no
\* exception leaves the handler.
C3_NoUnhandledException ==
    \A r \in Reqs : Finished(r) => resp[r].kind \in {"pdf", "json_error"}

-----------------------------------------------------------------------------
(* C4 *)

PastSelection(r) ==
    \/ h[r].pc \in {"gemini_analysis", "gemini_draft", "gemini_edit",
                    "openai_draft", "openai_edit", "render"}
    \/ Finished(r) /\ h[r].failed_at \notin {"prepare", "validation", "extract"}

\* C4: the Gemini client is touched only with a Google credential, the
\* OpenAI client only without a Google credential and with an OpenAI one,
\* never both, and a request that reached provider selection has touched
\* exactly one of them.
C4_ProviderPrecedence ==
    \A r \in Reqs :
        /\ Touched(r, GeminiAPIs) => GoogleKey(r) # <<>>
        /\ Touched(r, OpenAIAPIs) => GoogleKey(r) = <<>> /\ OpenAIKey(r) # <<>>
        /\ GoogleKey(r) # <<>> => ~Touched(r, OpenAIAPIs)
        /\ ~(Touched(r, GeminiAPIs) /\ Touched(r, OpenAIAPIs))
        /\ PastSelection(r) => Touched(r, GeminiAPIs) \/ Touched(r, OpenAIAPIs)
        /\ h[r].model_type = "gemini" => GoogleKey(r) # <<>>
        /\ h[r].model_type = "openai" => GoogleKey(r) = <<>>

\* Both credentials were sent, Gemini initialization failed, and the OpenAI
\* client was not constructed.
C4_Witness ==
    \E r \in Reqs :
        /\ GoogleKey(r) # <<>>
        /\ OpenAIKey(r) # <<>>
        /\ resp[r] = ErrGeminiInit
        /\ ~Touched(r, OpenAIAPIs)

-----------------------------------------------------------------------------
(* C5 *)

RelativeOverride(r) ==
    /\ req[r].output_path # <<>>
    /\ ~IsAbsolute(ExpandUser(req[r].output_path))

\* C5: a relative output_path resolves to a path inside BASE_DIR, and the
\* directory the handler creates for it is inside BASE_DIR too.
C5_RelativeOutputInsideBase ==
    \A r \in Reqs :
        RelativeOverride(r) =>
            /\ h[r].output_pdf # <<>> => IsInside(h[r].output_pdf, BASE_DIR)
            /\ \A i \in CallsTo(r, {"mkdir"}) : IsInside(calls[r][i].arg, BASE_DIR)

-----------------------------------------------------------------------------
(* C6 *)

\* C6, as stated: no request changes state that other requests share.
C6_NoSharedStateMutated == [][genai_api_key' = genai_api_key]_vars

\* C6, amended: every call that carries a credential carries the one its own
\* request was sent with, whatever other requests have stored in the
\* process-wide Gemini configuration in the meantime.
C6_OwnCredential ==
    \A r \in Reqs : \A i \in 1..Len(calls[r]) :
        /\ calls[r][i].api \in {"genai.configure", "generate_content"} =>
               calls[r][i].key = GoogleKey(r)
        /\ calls[r][i].api \in OpenAIAPIs => calls[r][i].key = OpenAIKey(r)

\* Two Gemini requests are in flight at once: one is suspended in an upload
\* read, the other is in its pipeline and has called the provider after
\* storing its credential process-wide.
C6_Witness ==
    \E r1, r2 \in Reqs :
        /\ r1 # r2
        /\ h[r1].pc \in {"await_read", "await_close"}
        /\ GoogleKey(r1) # <<>>
        /\ GoogleKey(r2) # GoogleKey(r1)
        /\ h[r2].pc = "gemini_draft"
        /\ genai_api_key = GoogleKey(r2)
        /\ Touched(r2, {"generate_content"})

-----------------------------------------------------------------------------
(* C7 *)

\* C7: each stage is called at most once per request (so at most three
\* Gemini calls and two OpenAI calls), and a call that raised is the last
\* external call of a request that ended with a JSON error.
C7_NoRetry ==
    \A r \in Reqs :
        /\ \A stage \in Stages :
               Cardinality({i \in CallsTo(r, GenerationAPIs) :
                                calls[r][i].stage = stage}) <= 1
        /\ Cardinality(CallsTo(r, {"generate_content"})) <= 3
        /\ Cardinality(CallsTo(r, {"chat.completions.create"})) <= 2
        /\ \A i \in CallsTo(r, GenerationAPIs) :
               calls[r][i].result \in {"raised", "timed_out"} =>
                   /\ i = Len(calls[r])
                   /\ Finished(r)
                   /\ resp[r].kind = "json_error"

\* The analysis succeeded, the draft call raised, and the request ended
\* after those two calls.
C7_Witness ==
    \E r \in Reqs :
        /\ Finished(r)
        /\ resp[r] = ErrGeminiDraft
        /\ Cardinality(CallsTo(r, GenerationAPIs)) = 2
        /\ calls[r][Len(calls[r])].result = "raised"

-----------------------------------------------------------------------------
(* C8 *)

\* What went wrong in a request, read off its inputs and its external calls.
FailureClass(r) ==
    IF \E i \in CallsTo(r, {"write_pdf"}) : calls[r][i].result = "raised"
    THEN "rendering"
    ELSE IF \E i \in CallsTo(r, GenerationAPIs) :
                calls[r][i].result \in {"raised", "timed_out", "blank"}
    THEN "generation"
    ELSE IF \E i \in CallsTo(r, InitAPIs) : calls[r][i].result = "raised"
    THEN "initialization"
    ELSE IF FailsValidation(r)
    THEN "validation"
    ELSE "none"

\* C8: a JSON error has status 400 exactly for validation and provider
\* initialization failures and status 500 exactly for generation and
\* rendering failures.
C8_StatusByFailureClass ==
    \A r \in Reqs :
        resp[r].kind = "json_error" =>
            /\ FailureClass(r) # "none"
            /\ resp[r].status_code = 400 <=>
                   FailureClass(r) \in {"validation", "initialization"}
            /\ resp[r].status_code = 500 <=>
                   FailureClass(r) \in {"generation", "rendering"}

\* A provider initialization failure was answered.
C8_Witness ==
    \E r \in Reqs :
        /\ resp[r].kind = "json_error"
        /\ FailureClass(r) = "initialization"
        /\ Touched(r, {"genai.GenerativeModel"})

-----------------------------------------------------------------------------
(* C9 *)

\* C9: the prompt of every generation call (analysis, draft, edit) contains
\* the persona of its request.
C9_PersonaInEveryPrompt ==
    \A r \in Reqs : \A i \in CallsTo(r, GenerationAPIs) :
        Contains(calls[r][i].arg, h[r].personality)

-----------------------------------------------------------------------------
(* C10 *)

\* C10, as stated: an OpenAI request that succeeded has recorded the three
\* stages analysis, draft and edit.
C10_ThreeStagesRecorded ==
    \A r \in Reqs :
        (h[r].model_type = "openai" /\ resp[r].kind = "pdf") =>
            Stages \subseteq Range(h[r].steps)

\* C10, amended: on the OpenAI path no analysis call is made, the draft
\* prompt carries the fixed placeholder summary, and the stages recorded are
\* draft and edit only.
C10_OpenAITwoStages ==
    \A r \in Reqs :
        h[r].model_type = "openai" =>
            /\ \A i \in CallsTo(r, GenerationAPIs) :
                   /\ calls[r][i].api = "chat.completions.create"
                   /\ calls[r][i].stage # "analysis"
                   /\ calls[r][i].stage = "draft" =>
                          Contains(calls[r][i].arg, OpenAISummary)
            /\ "analysis" \notin Range(h[r].steps)
            /\ resp[r].kind = "pdf" => h[r].steps = <<"draft", "edit">>

\* An OpenAI request ended with the PDF.
C10_Witness ==
    \E r \in Reqs :
        /\ h[r].model_type = "openai"
        /\ resp[r].kind = "pdf"
        /\ Cardinality(CallsTo(r, {"chat.completions.create"})) = 2

-----------------------------------------------------------------------------
(* C11 *)

\* Every generation call carries the 5-minute timeout, and one whose timeout
\* expired ended its request with the error of its stage.
TimeoutOnEveryCall ==
    \A r \in Reqs : \A i \in CallsTo(r, GenerationAPIs) :
        /\ calls[r][i].timeout = GEMINI_TIMEOUT
        /\ calls[r][i].result # "no_answer"
        /\ calls[r][i].result = "timed_out" =>
               /\ i = Len(calls[r])
               /\ Finished(r)
               /\ resp[r] = StageError(calls[r][i].api, calls[r][i].stage, "timed_out")

\* C11: every provider call is issued with the fixed 5-minute timeout, a call
\* that exceeds it fails its stage, and every request that arrived
\* eventually ends; none waits on a stage forever.
C11_TimeoutBoundsEveryRequest ==
    /\ []TimeoutOnEveryCall
    /\ \A r \in Reqs : Arrived(r) ~> Finished(r)

\* The analysis succeeded and the draft call went unanswered until its
\* timeout expired: the request ended with the draft error.
C11_Witness ==
    \E r \in Reqs : \E i \in CallsTo(r, {"generate_content"}) :
        /\ calls[r][i].stage = "draft"
        /\ calls[r][i].result = "timed_out"
        /\ calls[r][i].timeout = GEMINI_TIMEOUT
        /\ Finished(r)
        /\ resp[r] = ErrGeminiDraft

-----------------------------------------------------------------------------
(* C12 *)

HasExtension(storage, ext) ==
    storage.filename # None /\ EndsWith(Lower(storage.filename), ext)

\* The indices of the pages of a PDF upload that have text
TextPages(storage) == {i \in 1..Len(storage.pages) : storage.pages[i] # <<>>}

\* The k-th smallest element of a set of numbers
RECURSIVE Nth(_, _)
Nth(S, k) ==
    LET least == CHOOSE m \in S : \A n \in S : m <= n
    IN  IF k = 1 THEN least ELSE Nth(S \ {least}, k - 1)

\* What the upload is to contribute: nothing when it has no content or an
\* unsupported extension, its pages with text in page order when it is a
\* .pdf, and its one decoded text when it is a .txt.
ClaimedFragments(storage) ==
    IF storage.empty THEN <<>>
    ELSE IF HasExtension(storage, <<".", "p", "d", "f">>)
    THEN [k \in 1..Cardinality(TextPages(storage)) |->
              storage.pages[Nth(TextPages(storage), k)]]
    ELSE IF HasExtension(storage, <<".", "t", "x", "t">>)
    THEN <<storage.text>>
    ELSE <<>>

RECURSIVE ClaimedTexts(_)
ClaimedTexts(files) ==
    IF files = <<>> THEN <<>>
    ELSE ClaimedFragments(Head(files)) \o ClaimedTexts(Tail(files))

ExtractorReturned(r) == h[r].pc = "select" /\ req[r].files # <<>>
ExtractorRaised(r) == Finished(r) /\ h[r].failed_at = "extract"

\* C12: for any sequence of uploads the extractor returns, and what it
\* returns is the uploads' fragments in upload order: per .pdf upload its
\* pages with text in page order, per non-empty .txt upload one fragment,
\* nothing for an upload that is empty or has another extension.
C12_FragmentsInUploadOrder ==
    \A r \in Reqs :
        /\ ~ExtractorRaised(r)
        /\ ExtractorReturned(r) => h[r].uploaded_text = ClaimedTexts(req[r].files)

-----------------------------------------------------------------------------
(* C13 *)

IsNonBlankString(text) == text # None /\ \E i \in 1..Len(text) : text[i] \notin WS

\* All the parts of all the candidates that have a content, in candidate
\* order and then part order
RECURSIVE AllParts(_)
AllParts(candidates) ==
    IF candidates = <<>> THEN <<>>
    ELSE (IF Head(candidates).has_content THEN Head(candidates).parts ELSE <<>>)
         \o AllParts(Tail(candidates))

\* The string-valued part texts of a response, one after the other
StringParts(response) ==
    Join(<<>>, SelectSeq(AllParts(response.candidates), LAMBDA part_text : part_text # None))

\* C13: _response_text returns the top-level text unchanged when it is a
\* non-blank string; otherwise the concatenation of the string-valued part
\* texts of all candidates in candidate order and then part order; and when
\* it returns the empty string the calling stage fails.
C13_ResponseTextFallback ==
    text_call.pc \in {"returned", "checked"} =>
        /\ IsNonBlankString(text_call.response.text) =>
               text_call.returned = text_call.response.text
        /\ ~IsNonBlankString(text_call.response.text) =>
               text_call.returned = StringParts(text_call.response)
        /\ (text_call.pc = "checked" /\ text_call.returned = <<>>) => text_call.failed

\* A blank top-level text and two candidates with string parts: the parts
\* were concatenated in order, untrimmed, and the stage went on.
C13_Witness ==
    /\ text_call.pc = "checked"
    /\ text_call.response =
           GeminiResponse(<<" ">>, << Candidate(TRUE, << <<"a">>, None >>),
                                      Candidate(TRUE, << <<" ">>, <<"a">> >>) >>)
    /\ text_call.returned = <<"a", " ", "a">>
    /\ ~text_call.failed

=============================================================================
